---- MODULE Spec2Model ----
(***************************************************************************)
(* Model of the header-bar Menu (menu.py) and of the LoginWidget           *)
(* (login_widget.py) of the Proton VPN GTK application.                    *)
(*                                                                         *)
(* The UI thread runs the GLib main loop.  A click handler that opens a    *)
(* DisconnectDialog blocks in dialog.run(), which runs a recursive main    *)
(* loop: idle callbacks are still dispatched while the dialog is open, and *)
(* a handler entered from inside that loop runs to its end, or to its own  *)
(* dialog, before the outer run() can return.  The future returned by      *)
(* controller.logout() is completed by another thread (or is already       *)
(* completed when it is returned).                                         *)
(***************************************************************************)
EXTENDS Integers, Sequences, FiniteSets, TLC

\* ---------------------------------------------------------------- bounds
MaxClicks == 2
MaxLoginOps == 4
MaxSubmits == 1

\* ------------------------------------------------------ program constants
UNABLE_TO_LOGOUT_TITLE == "Unable to Logout"
UNABLE_TO_LOGOUT_MESSAGE == "Please ensure you have internet access."
DISCONNECT_ON_LOGOUT_MESSAGE == "Logging out of the application will disconnect the active VPN connection.\n\nDo you want to continue?"
DISCONNECT_ON_QUIT_MESSAGE == "Quitting the application will disconnect the active VPN connection.\n\nDo you want to continue?"

\* Gtk.ResponseType values a DisconnectDialog can return from run().
ResponseType == {"YES", "NO", "DELETE_EVENT"}

\* How a logout future can be resolved: future.result() returns, raises
\* ProtonAPINotReachable, or raises any other exception.
Outcomes == {"ok", "ProtonAPINotReachable", "Exception"}
FutureStates == {"pending"} \cup Outcomes

VARIABLES
    logout_enabled,        \* Menu.logout_action.get_enabled()
    is_connection_active,  \* Controller.is_connection_active
    futures,               \* futures returned by controller.logout(), in call order
    idle_queue,            \* GLib idle sources: futures whose result awaits the UI loop
    handled,               \* futures whose result _on_logout_result has processed
    user_logged_out,       \* number of "user-logged-out" emissions
    error_dialogs,         \* show_error_dialog(message, title) calls
    confirm_dialogs,       \* DisconnectDialog messages shown
    quit_calls,            \* number of main_window.quit() calls
    uncaught,              \* exceptions that left _on_logout_result
    completing,            \* futures that are done and whose done callbacks the
                           \* completing thread has not run yet
    frames,                \* the click handlers blocked in dialog.run(), outermost first
    clicks,                \* number of menu clicks and of assignments to
                           \* logout_enabled by the owner so far
    gated,                 \* whether the logout action's enabled flag has been the
                           \* only gate so far: every logout click came while it was
                           \* enabled, and the owner has not assigned logout_enabled
    ev,                    \* the last Menu step and the state at its handler's entry
    active_form,           \* LoginWidget.active_form
    visible_child,         \* LoginWidget (Gtk.Stack) visible child
    user_logged_in,        \* number of "user-logged-in" emissions
    resets,                \* number of reset() calls received by each form
    form_input,            \* whether each form holds text or an error message
    leftover,              \* whether each form holds text or an error message
                           \* from before it was last shown
    login_ops,             \* number of LoginWidget signals and calls so far
    lev,                   \* the last LoginWidget step and the state at its entry
    username,              \* LoginForm.username
    password,              \* LoginForm.password
    error_message,         \* LoginForm.error_message
    login_calls,           \* controller.login(username, password) calls
    login_futures,         \* the futures controller.login returned, in call order
    login_idle_queue,      \* login futures whose result awaits the UI loop
    user_authenticated,    \* arguments of the "user-authenticated" emissions
    fev                    \* the last LoginForm call or callback and the state at its entry

menu_vars == <<logout_enabled, is_connection_active, futures, idle_queue, handled,
               user_logged_out, error_dialogs, confirm_dialogs, quit_calls,
               uncaught, completing, frames, clicks, gated, ev>>

login_vars == <<active_form, visible_child, user_logged_in, resets, form_input,
                leftover, login_ops, lev>>

form_vars == <<username, password, error_message, login_calls, login_futures,
               login_idle_queue, user_authenticated, fev>>

vars == <<menu_vars, login_vars, form_vars>>

\* The Menu object and the effects it has had, as one value.
MenuState ==
    [logout_enabled  |-> logout_enabled,
     futures         |-> futures,
     idle_queue      |-> idle_queue,
     handled         |-> handled,
     user_logged_out |-> user_logged_out,
     error_dialogs   |-> error_dialogs,
     confirm_dialogs |-> confirm_dialogs,
     quit_calls      |-> quit_calls,
     uncaught        |-> uncaught]

SetMenuState(s) ==
    /\ logout_enabled' = s.logout_enabled
    /\ futures' = s.futures
    /\ idle_queue' = s.idle_queue
    /\ handled' = s.handled
    /\ user_logged_out' = s.user_logged_out
    /\ error_dialogs' = s.error_dialogs
    /\ confirm_dialogs' = s.confirm_dialogs
    /\ quit_calls' = s.quit_calls
    /\ uncaught' = s.uncaught

InitialMenuState ==
    [logout_enabled  |-> TRUE,
     futures         |-> <<>>,
     idle_queue      |-> <<>>,
     handled         |-> <<>>,
     user_logged_out |-> 0,
     error_dialogs   |-> <<>>,
     confirm_dialogs |-> <<>>,
     quit_calls      |-> 0,
     uncaught        |-> 0]

\* A handler blocked in dialog.run(): which handler, and the state at its entry.
Frame(kind, pre) == [kind |-> kind, pre |-> pre]

\* ------------------------------------------------------------ Menu methods

\* logout_enabled setter
set_logout_enabled(s, newvalue) == [s EXCEPT !.logout_enabled = newvalue]

\* Variant of on_logout_result: message and title passed in the wrong order.
on_logout_result_swapped(s, i) ==
    LET s0 == [s EXCEPT !.handled = Append(@, i)]
        result == s0.futures[i]
    IN  IF result = "ok"
        THEN [s0 EXCEPT !.user_logged_out = @ + 1]
        ELSE IF result = "ProtonAPINotReachable"
        THEN [set_logout_enabled(s0, TRUE) EXCEPT
                 !.error_dialogs = Append(@, <<UNABLE_TO_LOGOUT_TITLE,
                                               UNABLE_TO_LOGOUT_MESSAGE>>)]
        ELSE [s0 EXCEPT !.uncaught = @ + 1]

\* Variant of on_logout_result: the signal is emitted after the try block,
\* so also when ProtonAPINotReachable was caught.
on_logout_result_emit_after_try(s, i) ==
    LET s0 == [s EXCEPT !.handled = Append(@, i)]
        result == s0.futures[i]
    IN  IF result = "ok"
        THEN [s0 EXCEPT !.user_logged_out = @ + 1]
        ELSE IF result = "ProtonAPINotReachable"
        THEN [set_logout_enabled(s0, TRUE) EXCEPT
                 !.error_dialogs = Append(@, <<UNABLE_TO_LOGOUT_MESSAGE,
                                               UNABLE_TO_LOGOUT_TITLE>>),
                 !.user_logged_out = @ + 1]
        ELSE [s0 EXCEPT !.uncaught = @ + 1]

\* Variant of on_logout_result: the logout action is enabled again after a
\* successful logout too.
on_logout_result_enable_always(s, i) ==
    LET s0 == set_logout_enabled([s EXCEPT !.handled = Append(@, i)], TRUE)
        result == s0.futures[i]
    IN  IF result = "ok"
        THEN [s0 EXCEPT !.user_logged_out = @ + 1]
        ELSE IF result = "ProtonAPINotReachable"
        THEN [s0 EXCEPT !.error_dialogs = Append(@, <<UNABLE_TO_LOGOUT_MESSAGE,
                                                       UNABLE_TO_LOGOUT_TITLE>>)]
        ELSE [s0 EXCEPT !.uncaught = @ + 1]

\* Menu._on_logout_result(future)
on_logout_result(s, i) ==
    LET s0 == [s EXCEPT !.handled = Append(@, i)]
        result == s0.futures[i]
    IN  IF result = "ok"
        THEN [s0 EXCEPT !.user_logged_out = @ + 1]
        ELSE IF result = "ProtonAPINotReachable"
        THEN [set_logout_enabled(s0, TRUE) EXCEPT
                 !.error_dialogs = Append(@, <<UNABLE_TO_LOGOUT_MESSAGE,
                                               UNABLE_TO_LOGOUT_TITLE>>)]
        ELSE [s0 EXCEPT !.uncaught = @ + 1]

\* GLib.idle_add(self._on_logout_result, future)
idle_add(s, i) == [s EXCEPT !.idle_queue = Append(@, i)]

\* Variant of done_callback: the result is handled in the done callback
\* itself, without GLib.idle_add.
done_callback_direct(s, i) == on_logout_result(s, i)

\* lambda future: GLib.idle_add(self._on_logout_result, future)
done_callback(s, i) == idle_add(s, i)

\* Future.add_done_callback: a future that is already done runs the callback
\* at once in the calling thread; otherwise the completing thread runs it.
add_done_callback(s, i) ==
    IF s.futures[i] # "pending" THEN done_callback(s, i) ELSE s

\* Menu._request_logout(); st is the state of the future controller.logout() returns
request_logout(s, st) ==
    LET s1 == [s EXCEPT !.futures = Append(@, st)]
    IN  add_done_callback(s1, Len(s1.futures))

\* DisconnectDialog(message=...).run(): the dialog is shown
show_disconnect_dialog(s, message) ==
    [s EXCEPT !.confirm_dialogs = Append(@, message)]

\* Variant of logout_clicked_enter: the action is not disabled.
logout_clicked_enter_keeps_enabled(s) == s

\* Menu._on_logout_clicked, lines 131-132: the action is disabled first
logout_clicked_enter(s) == set_logout_enabled(s, FALSE)

\* Variant of logout_clicked_response: the action is re-enabled on YES.
logout_clicked_response_yes(s, response) == set_logout_enabled(s, response = "YES")

\* Menu._on_logout_clicked, lines 144-145: the dialog's response is read
logout_clicked_response(s, response) == set_logout_enabled(s, response = "NO")

\* Variant of logout_clicked_finish: the test of confirm_logout is inverted.
logout_clicked_finish_inverted(s, confirm_logout, st) ==
    IF ~confirm_logout THEN request_logout(s, st) ELSE s

\* Menu._on_logout_clicked, lines 147-149
logout_clicked_finish(s, confirm_logout, st) ==
    IF confirm_logout THEN request_logout(s, st) ELSE s

\* Variant of quit_clicked_finish: quits whatever the dialog's response was.
quit_clicked_finish_always(s, confirm_quit) == [s EXCEPT !.quit_calls = @ + 1]

\* Menu._on_quit_clicked, lines 166-168
quit_clicked_finish(s, confirm_quit) ==
    IF confirm_quit THEN [s EXCEPT !.quit_calls = @ + 1] ELSE s

\* A step's record: the handler or callback that ran (op), whether a connection
\* was active when it started, its input (arg), the state at the handler's
\* entry (pre) and the state when its last blocking call returned (mid).
Event(op, active, arg, pre, mid) ==
    [op |-> op, active |-> active, arg |-> arg, pre |-> pre, mid |-> mid]

\* The handler whose dialog.run() returns next: the innermost one.
Top == frames[Len(frames)]

\* frames without the innermost handler
Pop == SubSeq(frames, 1, Len(frames) - 1)

\* ------------------------------------------------------------------- Init
MenuInit ==
    /\ logout_enabled = TRUE
    /\ futures = <<>>
    /\ idle_queue = <<>>
    /\ handled = <<>>
    /\ user_logged_out = 0
    /\ error_dialogs = <<>>
    /\ confirm_dialogs = <<>>
    /\ quit_calls = 0
    /\ uncaught = 0
    /\ is_connection_active = FALSE   \* ConnectionChange brings it up at any time
    /\ completing = {}
    /\ frames = <<>>
    /\ clicks = 0
    /\ gated = TRUE
    /\ ev = Event("init", FALSE, "none", InitialMenuState, InitialMenuState)

\* ---------------------------------------------------------------- actions

\* _on_logout_clicked from its entry to its return (no active connection) or
\* to the point where it blocks in logout_dialog.run() (active connection).
OnLogoutClicked ==
    /\ clicks < MaxClicks
    /\ clicks' = clicks + 1
    /\ UNCHANGED <<is_connection_active, completing, login_vars, form_vars>>
    /\ LET s1 == logout_clicked_enter(MenuState) IN
       IF is_connection_active
       THEN /\ SetMenuState(show_disconnect_dialog(s1, DISCONNECT_ON_LOGOUT_MESSAGE))
            /\ frames' = Append(frames, Frame("logout", MenuState))
            /\ ev' = Event("logout_dialog_run", TRUE, "none", MenuState, MenuState)
       ELSE \E st \in FutureStates :
            /\ SetMenuState(logout_clicked_finish(s1, TRUE, st))
            /\ frames' = frames
            /\ ev' = Event("on_logout_clicked", FALSE, "none", MenuState, MenuState)

\* The user activates the "logout" action: Gio delivers "activate" only while
\* the action is enabled.
LogoutActivated ==
    /\ logout_enabled
    /\ OnLogoutClicked
    /\ gated' = gated

\* Menu.logout_button_click(): calls the handler whatever the enabled flag is.
LogoutButtonClick ==
    /\ OnLogoutClicked
    /\ gated' = (gated /\ logout_enabled)

\* The owner of the Menu assigns menu.logout_enabled = newvalue.
SetLogoutEnabled ==
    /\ clicks < MaxClicks
    /\ clicks' = clicks + 1
    /\ \E newvalue \in BOOLEAN :
         /\ SetMenuState(set_logout_enabled(MenuState, newvalue))
         /\ ev' = Event("logout_enabled", is_connection_active,
                        IF newvalue THEN "True" ELSE "False", MenuState, MenuState)
    /\ gated' = FALSE
    /\ UNCHANGED <<is_connection_active, completing, frames, login_vars, form_vars>>

\* The innermost dialog.run(), a logout dialog's, returns response: the rest
\* of _on_logout_clicked.
LogoutDialogResponse ==
    /\ frames # <<>>
    /\ Top.kind = "logout"
    /\ \E response \in ResponseType, st \in FutureStates :
         /\ SetMenuState(logout_clicked_finish(
                logout_clicked_response(MenuState, response), response = "YES", st))
         /\ ev' = Event("on_logout_clicked", TRUE, response, Top.pre, MenuState)
    /\ frames' = Pop
    /\ UNCHANGED <<is_connection_active, completing, clicks, gated, login_vars, form_vars>>

\* _on_quit_clicked from its entry to its return (no active connection) or to
\* the point where it blocks in quit_dialog.run() (active connection).
OnQuitClicked ==
    /\ clicks < MaxClicks
    /\ clicks' = clicks + 1
    /\ UNCHANGED <<is_connection_active, completing, gated, login_vars, form_vars>>
    /\ IF is_connection_active
       THEN /\ SetMenuState(show_disconnect_dialog(MenuState, DISCONNECT_ON_QUIT_MESSAGE))
            /\ frames' = Append(frames, Frame("quit", MenuState))
            /\ ev' = Event("quit_dialog_run", TRUE, "none", MenuState, MenuState)
       ELSE /\ SetMenuState(quit_clicked_finish(MenuState, TRUE))
            /\ frames' = frames
            /\ ev' = Event("on_quit_clicked", FALSE, "none", MenuState, MenuState)

\* The innermost dialog.run(), a quit dialog's, returns response: the rest of
\* _on_quit_clicked.
QuitDialogResponse ==
    /\ frames # <<>>
    /\ Top.kind = "quit"
    /\ \E response \in ResponseType :
         /\ SetMenuState(quit_clicked_finish(MenuState, response = "YES"))
         /\ ev' = Event("on_quit_clicked", TRUE, response, Top.pre, MenuState)
    /\ frames' = Pop
    /\ UNCHANGED <<is_connection_active, completing, clicks, gated, login_vars, form_vars>>

\* Another thread completes a pending logout future: set_result or
\* set_exception makes it done; its done callbacks are run afterwards.
FutureDone ==
    \E i \in 1..Len(futures), outcome \in Outcomes :
        /\ futures[i] = "pending"
        /\ SetMenuState([MenuState EXCEPT !.futures[i] = outcome])
        /\ completing' = completing \cup {i}
        /\ ev' = Event("future_done", is_connection_active, outcome, MenuState, MenuState)
        /\ UNCHANGED <<is_connection_active, frames, clicks, gated, login_vars, form_vars>>

\* The completing thread runs the done callback of a future it has made done.
InvokeCallbacks ==
    \E i \in completing :
        /\ SetMenuState(done_callback(MenuState, i))
        /\ completing' = completing \ {i}
        /\ ev' = Event("invoke_callbacks", is_connection_active, futures[i], MenuState, MenuState)
        /\ UNCHANGED <<is_connection_active, frames, clicks, gated, login_vars, form_vars>>

\* The main loop (top level, or the recursive one of an open dialog) runs the
\* oldest idle source: _on_logout_result(future).  The callback returns None
\* or raises, so the source is removed after this one call.
IdleDispatch ==
    /\ idle_queue # <<>>
    /\ LET i == Head(idle_queue)
           s == [MenuState EXCEPT !.idle_queue = Tail(@)]
       IN  /\ SetMenuState(on_logout_result(s, i))
           /\ ev' = Event("on_logout_result", is_connection_active, futures[i], MenuState, MenuState)
    /\ UNCHANGED <<is_connection_active, completing, frames, clicks, gated, login_vars, form_vars>>

\* The controller's connection comes up or goes down.
ConnectionChange ==
    /\ is_connection_active' = ~is_connection_active
    /\ UNCHANGED <<logout_enabled, futures, idle_queue, handled, user_logged_out,
                   error_dialogs, confirm_dialogs, quit_calls, uncaught, completing, frames,
                   clicks, gated, ev, login_vars, form_vars>>

MenuNext ==
    \/ LogoutActivated
    \/ LogoutButtonClick
    \/ SetLogoutEnabled
    \/ LogoutDialogResponse
    \/ OnQuitClicked
    \/ QuitDialogResponse
    \/ FutureDone
    \/ InvokeCallbacks
    \/ IdleDispatch
    \/ ConnectionChange

\* ------------------------------------------------------------ LoginWidget

\* The two children of the stack, by the names given to add_named().
Forms == {"login_form", "2fa_form"}

LoginState ==
    [active_form    |-> active_form,
     visible_child  |-> visible_child,
     user_logged_in |-> user_logged_in,
     resets         |-> resets,
     form_input     |-> form_input,
     leftover       |-> leftover]

SetLoginState(w) ==
    /\ active_form' = w.active_form
    /\ visible_child' = w.visible_child
    /\ user_logged_in' = w.user_logged_in
    /\ resets' = w.resets
    /\ form_input' = w.form_input
    /\ leftover' = w.leftover

\* LoginWidget.__init__: active_form is None; the stack shows the first child
\* added to it, the login form.
InitialLoginState ==
    [active_form    |-> "None",
     visible_child  |-> "login_form",
     user_logged_in |-> 0,
     resets         |-> [f \in Forms |-> 0],
     form_input     |-> [f \in Forms |-> FALSE],
     leftover       |-> [f \in Forms |-> FALSE]]

\* Variant of signal_user_logged_in: the signal is emitted twice.
signal_user_logged_in_twice(w) == [w EXCEPT !.user_logged_in = @ + 2]

\* LoginWidget._signal_user_logged_in
signal_user_logged_in(w) == [w EXCEPT !.user_logged_in = @ + 1]

\* Gtk.Stack.set_visible_child(form): what the form holds at this moment is
\* from before this showing.
set_visible_child(w, form) ==
    [w EXCEPT !.visible_child = form,
              !.leftover[form] = w.form_input[form]]

\* form.reset() of LoginForm / TwoFactorAuthForm: the fields and the error
\* message are cleared.
form_reset(w, form) ==
    [w EXCEPT !.resets[form] = @ + 1,
              !.form_input[form] = FALSE,
              !.leftover[form] = FALSE]

\* The user types into a form, or the form shows an error message.
form_edit(w, form) == [w EXCEPT !.form_input[form] = TRUE]

\* Variant of display_form: the form is shown but not reset.
display_form_no_reset(w, form) ==
    set_visible_child([w EXCEPT !.active_form = form], form)

\* Variant of display_form: reset() is called on the form that was active
\* before, not on the one being shown.
display_form_reset_previous(w, form) ==
    LET shown == set_visible_child([w EXCEPT !.active_form = form], form)
    IN  IF w.active_form \in Forms THEN form_reset(shown, w.active_form) ELSE shown

\* Variant of display_form: active_form is not updated.
display_form_keep_active(w, form) ==
    form_reset(set_visible_child(w, form), form)

\* LoginWidget.display_form(form)
display_form(w, form) ==
    form_reset(set_visible_child([w EXCEPT !.active_form = form], form), form)

\* LoginWidget._on_user_authenticated(two_factor_auth_required)
on_user_authenticated(w, two_factor_auth_required) ==
    IF ~two_factor_auth_required
    THEN signal_user_logged_in(w)
    ELSE display_form(w, "2fa_form")

\* Variant of on_two_factor_auth_successful: the widget also goes back to the
\* login form.
on_two_factor_auth_successful_reset(w) ==
    display_form(signal_user_logged_in(w), "login_form")

\* LoginWidget._on_two_factor_auth_successful
on_two_factor_auth_successful(w) == signal_user_logged_in(w)

\* Variant of on_session_expired_during_2fa: the 2FA form is shown again.
on_session_expired_during_2fa_stay(w) == display_form(w, "2fa_form")

\* LoginWidget._on_session_expired_during_2fa
on_session_expired_during_2fa(w) == display_form(w, "login_form")

\* LoginWidget.reset
reset(w) == display_form(w, "login_form")

LoginEvent(op, arg, pre) == [op |-> op, arg |-> arg, pre |-> pre]

LoginInit ==
    /\ active_form = InitialLoginState.active_form
    /\ visible_child = InitialLoginState.visible_child
    /\ user_logged_in = InitialLoginState.user_logged_in
    /\ resets = InitialLoginState.resets
    /\ form_input = InitialLoginState.form_input
    /\ leftover = InitialLoginState.leftover
    /\ login_ops = 0
    /\ lev = LoginEvent("init", "none", InitialLoginState)

LoginStep(w, op, arg) ==
    /\ login_ops' = login_ops + 1
    /\ SetLoginState(w)
    /\ lev' = LoginEvent(op, arg, LoginState)
    /\ UNCHANGED <<menu_vars, form_vars>>

\* login_form emits "user-authenticated"
UserAuthenticated ==
    /\ login_ops < MaxLoginOps
    /\ \E two_factor_auth_required \in BOOLEAN :
        LoginStep(on_user_authenticated(LoginState, two_factor_auth_required),
                  "user-authenticated",
                  IF two_factor_auth_required THEN "True" ELSE "False")

\* two_factor_auth_form emits "two-factor-auth-successful"
TwoFactorAuthSuccessful ==
    /\ login_ops < MaxLoginOps
    /\ LoginStep(on_two_factor_auth_successful(LoginState),
                 "two-factor-auth-successful", "none")

\* two_factor_auth_form emits "session-expired"
SessionExpired ==
    /\ login_ops < MaxLoginOps
    /\ LoginStep(on_session_expired_during_2fa(LoginState), "session-expired", "none")

\* the owner calls LoginWidget.reset()
Reset ==
    /\ login_ops < MaxLoginOps
    /\ LoginStep(reset(LoginState), "reset", "none")

\* the owner calls LoginWidget.display_form(form)
DisplayForm ==
    /\ login_ops < MaxLoginOps
    /\ \E form \in Forms :
        LoginStep(display_form(LoginState, form), "display_form", form)

\* The user types into the form the stack shows, or that form shows an error.
FormEdit ==
    /\ visible_child \in Forms
    /\ SetLoginState(form_edit(LoginState, visible_child))
    /\ lev' = LoginEvent("form_edit", visible_child, LoginState)
    /\ UNCHANGED <<login_ops, menu_vars, form_vars>>

LoginNext ==
    \/ FormEdit
    \/ UserAuthenticated
    \/ TwoFactorAuthSuccessful
    \/ SessionExpired
    \/ Reset
    \/ DisplayForm

\* -------------------------------------------------------------- LoginForm
\* The login form on its own, as test_login_form.py builds it:
\* LoginForm(controller) with a controller whose login() returns a future.

\* Texts the tests type into the two fields; "" is an empty field.
Usernames == {"", "username"}
Passwords == {"", "password"}

\* A login future: not done yet, done with a LoginResult(success,
\* authenticated, twofa_required), or done with an exception (raises).
LoginFuture(done, raises, success, authenticated, twofa_required) ==
    [done |-> done, raises |-> raises, success |-> success,
     authenticated |-> authenticated, twofa_required |-> twofa_required]

PendingLogin == LoginFuture(FALSE, FALSE, FALSE, FALSE, FALSE)

\* LoginResult(success=True, authenticated=True, twofa_required=False)
LoginAuthenticated == LoginFuture(TRUE, FALSE, TRUE, TRUE, FALSE)

\* LoginResult(success=True, authenticated=True, twofa_required=True)
LoginTwoFactorRequired == LoginFuture(TRUE, FALSE, TRUE, TRUE, TRUE)

\* LoginResult(success=False, authenticated=False, twofa_required=False)
LoginWrongCredentials == LoginFuture(TRUE, FALSE, FALSE, FALSE, FALSE)

\* set_exception(ValueError("Invalid username"))
LoginInvalidUsername == LoginFuture(TRUE, TRUE, FALSE, FALSE, FALSE)

LoginOutcomes ==
    {LoginAuthenticated, LoginTwoFactorRequired, LoginWrongCredentials,
     LoginInvalidUsername}

FormState ==
    [username           |-> username,
     password           |-> password,
     error_message      |-> error_message,
     login_calls        |-> login_calls,
     login_futures      |-> login_futures,
     login_idle_queue   |-> login_idle_queue,
     user_authenticated |-> user_authenticated]

SetFormState(f) ==
    /\ username' = f.username
    /\ password' = f.password
    /\ error_message' = f.error_message
    /\ login_calls' = f.login_calls
    /\ login_futures' = f.login_futures
    /\ login_idle_queue' = f.login_idle_queue
    /\ user_authenticated' = f.user_authenticated

InitialFormState ==
    [username           |-> "",
     password           |-> "",
     error_message      |-> "",
     login_calls        |-> <<>>,
     login_futures      |-> <<>>,
     login_idle_queue   |-> <<>>,
     user_authenticated |-> <<>>]

\* Variant of on_login_result: the two error texts are exchanged.
on_login_result_texts_exchanged(f, i) ==
    LET result == f.login_futures[i]
    IN  IF result.raises
        THEN [f EXCEPT !.error_message = "Wrong credentials."]
        ELSE IF result.authenticated
        THEN [f EXCEPT !.user_authenticated =
                           Append(@, IF result.twofa_required THEN "True" ELSE "False")]
        ELSE [f EXCEPT !.error_message = "Invalid username."]

\* The login form's handling of the login future's result, on the UI thread.
on_login_result(f, i) ==
    LET result == f.login_futures[i]
    IN  IF result.raises
        THEN [f EXCEPT !.error_message = "Invalid username."]
        ELSE IF result.authenticated
        THEN [f EXCEPT !.user_authenticated =
                           Append(@, IF result.twofa_required THEN "True" ELSE "False")]
        ELSE [f EXCEPT !.error_message = "Wrong credentials."]

\* The done callback of a login future queues its result for the UI loop.
login_done_callback(f, i) == [f EXCEPT !.login_idle_queue = Append(@, i)]

\* Variant of submit_login: the two arguments are passed in the wrong order.
submit_login_swapped(f, fut) ==
    LET f1 == [f EXCEPT !.login_calls = Append(@, <<f.password, f.username>>),
                        !.login_futures = Append(@, fut)]
    IN  IF fut.done THEN login_done_callback(f1, Len(f1.login_futures)) ELSE f1

\* LoginForm.submit_login(); fut is the future controller.login returns
submit_login(f, fut) ==
    LET f1 == [f EXCEPT !.login_calls = Append(@, <<f.username, f.password>>),
                        !.login_futures = Append(@, fut)]
    IN  IF fut.done THEN login_done_callback(f1, Len(f1.login_futures)) ELSE f1

\* Whether the enter key submits: both fields hold text.
can_submit(f) == f.username # "" /\ f.password # ""

\* Variant of password_enter: only the password field is looked at.
password_enter_checks_password_only(f, fut) ==
    IF f.password # "" THEN submit_login(f, fut) ELSE f

\* LoginForm.username_enter(): enter pressed on the username field
username_enter(f, fut) == IF can_submit(f) THEN submit_login(f, fut) ELSE f

\* LoginForm.password_enter(): enter pressed on the password field
password_enter(f, fut) == IF can_submit(f) THEN submit_login(f, fut) ELSE f

FormEvent(op, pre) == [op |-> op, pre |-> pre]

FormInit ==
    /\ username = InitialFormState.username
    /\ password = InitialFormState.password
    /\ error_message = InitialFormState.error_message
    /\ login_calls = InitialFormState.login_calls
    /\ login_futures = InitialFormState.login_futures
    /\ login_idle_queue = InitialFormState.login_idle_queue
    /\ user_authenticated = InitialFormState.user_authenticated
    /\ fev = FormEvent("init", InitialFormState)

\* login_form.username = u
SetUsername ==
    /\ \E u \in Usernames : SetFormState([FormState EXCEPT !.username = u])
    /\ fev' = FormEvent("set_username", FormState)
    /\ UNCHANGED <<menu_vars, login_vars>>

\* login_form.password = p
SetPassword ==
    /\ \E p \in Passwords : SetFormState([FormState EXCEPT !.password = p])
    /\ fev' = FormEvent("set_password", FormState)
    /\ UNCHANGED <<menu_vars, login_vars>>

\* login_form.submit_login()
SubmitLogin ==
    /\ Len(login_calls) < MaxSubmits
    /\ \E fut \in {PendingLogin} \cup LoginOutcomes :
           SetFormState(submit_login(FormState, fut))
    /\ fev' = FormEvent("submit_login", FormState)
    /\ UNCHANGED <<menu_vars, login_vars>>

\* login_form.username_enter()
UsernameEnter ==
    /\ Len(login_calls) < MaxSubmits
    /\ \E fut \in {PendingLogin} \cup LoginOutcomes :
           SetFormState(username_enter(FormState, fut))
    /\ fev' = FormEvent("username_enter", FormState)
    /\ UNCHANGED <<menu_vars, login_vars>>

\* login_form.password_enter()
PasswordEnter ==
    /\ Len(login_calls) < MaxSubmits
    /\ \E fut \in {PendingLogin} \cup LoginOutcomes :
           SetFormState(password_enter(FormState, fut))
    /\ fev' = FormEvent("password_enter", FormState)
    /\ UNCHANGED <<menu_vars, login_vars>>

\* Another thread completes a pending login future and runs its done callback.
LoginFutureDone ==
    /\ \E i \in 1..Len(login_futures), outcome \in LoginOutcomes :
           /\ ~login_futures[i].done
           /\ SetFormState(login_done_callback(
                  [FormState EXCEPT !.login_futures[i] = outcome], i))
    /\ fev' = FormEvent("login_future_done", FormState)
    /\ UNCHANGED <<menu_vars, login_vars>>

\* The main loop hands the oldest queued login result to the form.
LoginResultDispatch ==
    /\ login_idle_queue # <<>>
    /\ SetFormState(on_login_result(
           [FormState EXCEPT !.login_idle_queue = Tail(@)], Head(login_idle_queue)))
    /\ fev' = FormEvent("on_login_result", FormState)
    /\ UNCHANGED <<menu_vars, login_vars>>

FormNext ==
    \/ SetUsername
    \/ SetPassword
    \/ SubmitLogin
    \/ UsernameEnter
    \/ PasswordEnter
    \/ LoginFutureDone
    \/ LoginResultDispatch

\* --------------------------------------------------------- specifications
Init == MenuInit /\ LoginInit /\ FormInit

SpecMenu == Init /\ [][MenuNext]_vars

SpecLogin == Init /\ [][LoginNext]_vars

SpecLoginForm == Init /\ [][FormNext]_vars

\* ------------------------------------------------------------ properties

\* C1: a logout click with no active connection shows no confirmation dialog
\* and calls controller.logout() exactly once.
C1_LogoutWithoutConnection ==
    (ev.op = "on_logout_clicked" /\ ~ev.active) =>
        /\ confirm_dialogs = ev.pre.confirm_dialogs
        /\ Len(futures) = Len(ev.pre.futures) + 1

C1_Witness ==
    /\ ev.op = "on_logout_clicked"
    /\ ~ev.active
    /\ Len(futures) = 1

\* C2: a logout click with an active connection, answered No, returns with
\* the logout action enabled and without any call of controller.logout().
C2_LogoutDeclined ==
    /\ ev.op = "logout_dialog_run" => futures = ev.pre.futures
    /\ (ev.op = "on_logout_clicked" /\ ev.active /\ ev.arg = "NO") =>
           /\ logout_enabled
           /\ futures = ev.mid.futures

C2_Witness ==
    /\ ev.op = "on_logout_clicked"
    /\ ev.active
    /\ ev.arg = "NO"
    /\ confirm_dialogs # <<>>

\* C3: handling a logout result that raises ProtonAPINotReachable re-enables
\* the logout action, shows exactly one error dialog, with the message
\* "Please ensure you have internet access." and the title "Unable to Logout",
\* and does not emit user-logged-out.
C3_ApiNotReachable ==
    (ev.op = "on_logout_result" /\ ev.arg = "ProtonAPINotReachable") =>
        /\ logout_enabled
        /\ error_dialogs = Append(ev.pre.error_dialogs,
                                  <<"Please ensure you have internet access.",
                                    "Unable to Logout">>)
        /\ user_logged_out = ev.pre.user_logged_out

C3_Witness ==
    /\ ev.op = "on_logout_result"
    /\ ev.arg = "ProtonAPINotReachable"
    /\ ~ev.pre.logout_enabled

\* The results handled so far that were successful.
SuccessfulResultsHandled ==
    {k \in 1..Len(handled) : futures[handled[k]] = "ok"}

\* How often future i occurs in the sequence q.
Occurrences(q, i) == Cardinality({k \in 1..Len(q) : q[k] = i})

\* C4: handling a successful logout result emits user-logged-out exactly once
\* and shows no error dialog; the number of emissions is always the number of
\* successful results handled; and every resolved future has its result
\* queued or handled exactly once, a pending one never.
C4_LoggedOutOncePerSuccess ==
    /\ (ev.op = "on_logout_result" /\ ev.arg = "ok") =>
           /\ user_logged_out = ev.pre.user_logged_out + 1
           /\ error_dialogs = ev.pre.error_dialogs
    /\ user_logged_out = Cardinality(SuccessfulResultsHandled)
    /\ \A i \in 1..Len(futures) :
           Occurrences(idle_queue, i) + Occurrences(handled, i)
               = (IF futures[i] = "pending" \/ i \in completing THEN 0 ELSE 1)

C4_Witness ==
    /\ ev.op = "on_logout_result"
    /\ ev.arg = "ok"
    /\ user_logged_out = 2

\* C5: a quit click with an active connection calls main_window.quit() exactly
\* once on Yes; on No it does not call it and changes nothing after the dialog
\* has returned; with no active connection it calls quit() exactly once and
\* shows no dialog.
C5_Quit ==
    /\ ev.op = "quit_dialog_run" =>
           /\ quit_calls = ev.pre.quit_calls
           /\ futures = ev.pre.futures
    /\ ev.op = "on_quit_clicked" =>
           /\ (ev.active /\ ev.arg = "YES") =>
                  quit_calls = ev.mid.quit_calls + 1
           /\ (ev.active /\ ev.arg = "NO") =>
                  /\ quit_calls = ev.mid.quit_calls
                  /\ MenuState = ev.mid
           /\ ~ev.active =>
                  /\ quit_calls = ev.pre.quit_calls + 1
                  /\ confirm_dialogs = ev.pre.confirm_dialogs
           /\ futures = ev.mid.futures

C5_Witness ==
    /\ ev.op = "on_quit_clicked"
    /\ ev.active
    /\ ev.arg = "NO"
    /\ quit_calls = 1

\* C6: every failure of the logout operation is caught in _on_logout_result
\* and turned into a UI change (error dialog or re-enabled logout action); no
\* exception leaves the callback.
C6_EveryFailureCaught ==
    (ev.op = "on_logout_result" /\ ev.arg # "ok") =>
        /\ uncaught = ev.pre.uncaught
        /\ \/ error_dialogs # ev.pre.error_dialogs
           \/ logout_enabled

\* The part of the state that only the UI thread may touch.
UiState(s) ==
    <<s.logout_enabled, s.user_logged_out, s.error_dialogs, s.handled, s.uncaught>>

\* C7: a logout result is processed only by the idle callback that the main
\* loop dispatches: the step that completes a future leaves the UI state
\* alone, and the click handler returns with the new future's result
\* unprocessed, queued if the future was already resolved.
C7_ResultOnlyFromIdleQueue ==
    /\ ev.op \in {"future_done", "invoke_callbacks"} =>
           UiState(MenuState) = UiState(ev.pre)
    /\ ev.op # "on_logout_result" => handled = ev.mid.handled
    /\ (ev.op = "on_logout_clicked" /\ Len(futures) > Len(ev.mid.futures)) =>
           /\ user_logged_out = ev.mid.user_logged_out
           /\ error_dialogs = ev.mid.error_dialogs
           /\ uncaught = ev.mid.uncaught
           /\ ~logout_enabled
           /\ Occurrences(handled, Len(futures)) = 0
           /\ futures[Len(futures)] # "pending" =>
                  idle_queue = Append(ev.mid.idle_queue, Len(futures))

C7_Witness ==
    /\ ev.op = "on_logout_clicked"
    /\ Len(futures) > Len(ev.mid.futures)
    /\ futures[Len(futures)] = "ok"
    /\ idle_queue # <<>>
    /\ user_logged_out = 0

\* C8: on user-authenticated with two_factor_auth_required = True the widget
\* makes the 2FA form active and visible, calls its reset() once and does not
\* emit user-logged-in.
C8_TwoFactorRequired ==
    (lev.op = "user-authenticated" /\ lev.arg = "True") =>
        /\ active_form = "2fa_form"
        /\ visible_child = "2fa_form"
        /\ resets["2fa_form"] = lev.pre.resets["2fa_form"] + 1
        /\ user_logged_in = lev.pre.user_logged_in

C8_Witness ==
    /\ lev.op = "user-authenticated"
    /\ lev.arg = "True"
    /\ lev.pre.visible_child = "login_form"

\* C9: user-logged-in is emitted exactly once for user-authenticated(False)
\* and for two-factor-auth-successful, and not at all for any other signal or
\* call.
C9_UserLoggedIn ==
    IF \/ lev.op = "user-authenticated" /\ lev.arg = "False"
       \/ lev.op = "two-factor-auth-successful"
    THEN user_logged_in = lev.pre.user_logged_in + 1
    ELSE user_logged_in = lev.pre.user_logged_in

C9_Witness ==
    /\ lev.op = "two-factor-auth-successful"
    /\ lev.pre.active_form = "2fa_form"
    /\ user_logged_in = 2

\* What the widget presents: the active form and the visible child.
Presentation(w) == <<w.active_form, w.visible_child>>

\* C10: session-expired and reset() both leave the login form active and
\* visible with its reset() called; a second reset() gives the same
\* presentation as the first.
C10_BackToLoginForm ==
    /\ lev.op \in {"session-expired", "reset"} =>
           /\ active_form = "login_form"
           /\ visible_child = "login_form"
           /\ resets["login_form"] = lev.pre.resets["login_form"] + 1
    /\ Presentation(reset(reset(LoginState))) = Presentation(reset(LoginState))
    /\ Presentation(reset(on_session_expired_during_2fa(LoginState)))
           = Presentation(on_session_expired_during_2fa(LoginState))

C10_Witness ==
    /\ lev.op = "session-expired"
    /\ lev.pre.active_form = "2fa_form"
    /\ lev.pre.resets["login_form"] > 0

\* The steps that call display_form.
DisplaySteps ==
    {"session-expired", "reset", "display_form"}

DisplayedBy(e) ==
    \/ e.op \in DisplaySteps
    \/ e.op = "user-authenticated" /\ e.arg = "True"

\* C11: every display_form(f), from whichever handler, calls reset() on the
\* form it shows, and the form the stack shows never holds text or an error
\* message from before it was last shown.
C11_ShownFormIsReset ==
    /\ DisplayedBy(lev) =>
           /\ resets[visible_child] = lev.pre.resets[visible_child] + 1
           /\ ~form_input[visible_child]
    /\ Presentation(LoginState) # Presentation(lev.pre) => DisplayedBy(lev)
    /\ visible_child \in Forms /\ ~leftover[visible_child]

C11_Witness ==
    /\ lev.op = "display_form"
    /\ lev.arg = "login_form"
    /\ lev.pre.visible_child = "2fa_form"
    /\ lev.pre.form_input["login_form"]
    /\ ~form_input["login_form"]

\* C17 as stated: in every state, the initial one included, active_form is one
\* of the two forms and is the visible child, and it is the login form at
\* first.
C17_Original ==
    /\ active_form \in Forms
    /\ active_form = visible_child
    /\ lev.op = "init" => active_form = "login_form"

\* Whether display_form has run since the widget was constructed.
Displayed == \E f \in Forms : resets[f] > 0

\* C17 (amended): once display_form has run (for reset(), session-expired,
\* user-authenticated(True) or a direct call), active_form is one of the two
\* forms and is the visible child of the stack; until then active_form is None.
C17_ActiveFormAfterDisplay ==
    IF Displayed
    THEN active_form \in Forms /\ active_form = visible_child
    ELSE active_form = "None"

C17_Witness ==
    /\ Displayed
    /\ lev.op = "user-authenticated"
    /\ lev.arg = "True"
    /\ lev.pre.active_form = "login_form"

\* What C18 calls the forms' state.
FormsState(w) == <<w.resets, w.form_input, w.leftover>>

\* C18: the active presentation changes only in the steps that call
\* display_form; user-authenticated(False) and two-factor-auth-successful
\* leave the presentation and both forms as they were.
C18_FrameOfLoginSignals ==
    /\ Presentation(LoginState) # Presentation(lev.pre) => DisplayedBy(lev)
    /\ (\/ lev.op = "user-authenticated" /\ lev.arg = "False"
        \/ lev.op = "two-factor-auth-successful") =>
           /\ Presentation(LoginState) = Presentation(lev.pre)
           /\ FormsState(LoginState) = FormsState(lev.pre)

C18_Witness ==
    /\ lev.op = "two-factor-auth-successful"
    /\ lev.pre.active_form = "2fa_form"
    /\ lev.pre.form_input["2fa_form"]
    /\ form_input["2fa_form"]

\* The login future whose result the last on_login_result step handled.
HandledLogin == fev.pre.login_futures[Head(fev.pre.login_idle_queue)]

\* C12: submit_login() with a non-empty username and password calls
\* controller.login once, with those two values in that order; handling the
\* result authenticated=True, twofa_required=False emits user-authenticated
\* once, with False, and leaves the error text alone.
C12_SubmitLogin ==
    /\ (fev.op = "submit_login" /\ fev.pre.username # "" /\ fev.pre.password # "") =>
           login_calls = Append(fev.pre.login_calls,
                                <<fev.pre.username, fev.pre.password>>)
    /\ (fev.op = "on_login_result" /\ HandledLogin = LoginAuthenticated) =>
           /\ user_authenticated = Append(fev.pre.user_authenticated, "False")
           /\ error_message = fev.pre.error_message

C12_Witness ==
    /\ fev.op = "on_login_result"
    /\ HandledLogin = LoginAuthenticated
    /\ login_calls = << <<"username", "password">> >>
    /\ user_authenticated = <<"False">>
    /\ error_message = ""

\* C13: enter on the username or on the password field calls controller.login
\* once when both fields hold text, and not at all when either is empty.
C13_EnterKey ==
    fev.op \in {"username_enter", "password_enter"} =>
        IF fev.pre.username # "" /\ fev.pre.password # ""
        THEN login_calls = Append(fev.pre.login_calls,
                                  <<fev.pre.username, fev.pre.password>>)
        ELSE login_calls = fev.pre.login_calls

C13_Witness ==
    /\ fev.op = "password_enter"
    /\ fev.pre.username = ""
    /\ fev.pre.password = "password"
    /\ login_calls = <<>>

\* C14: a login that fails emits no user-authenticated; a future that raised
\* the invalid-username error gives the error text "Invalid username.", a
\* result with success=False gives "Wrong credentials.".
C14_LoginFailure ==
    fev.op = "on_login_result" =>
        /\ HandledLogin.raises =>
               /\ error_message = "Invalid username."
               /\ user_authenticated = fev.pre.user_authenticated
        /\ (~HandledLogin.raises /\ ~HandledLogin.success) =>
               /\ error_message = "Wrong credentials."
               /\ user_authenticated = fev.pre.user_authenticated

C14_Witness ==
    /\ fev.op = "on_login_result"
    /\ HandledLogin = LoginWrongCredentials
    /\ fev.pre.error_message = ""
    /\ error_message = "Wrong credentials."
    /\ Len(login_calls) = 1
    /\ user_authenticated = <<>>

\* The logout operations that are outstanding: controller.logout() has been
\* called and _on_logout_result has not yet handled the result.
Outstanding == {i \in 1..Len(futures) : Occurrences(handled, i) = 0}

\* C15: with clicks delivered only while the logout action is enabled (and
\* the flag left to the menu), the action is disabled whenever a logout
\* operation is outstanding, and at most one is outstanding.
C15_DisabledWhileOutstanding ==
    gated =>
        /\ Outstanding # {} => ~logout_enabled
        /\ Cardinality(Outstanding) <= 1

C15_Witness ==
    /\ gated
    /\ Len(futures) = 2
    /\ futures[1] = "ProtonAPINotReachable"
    /\ Outstanding = {2}
    /\ futures[2] = "pending"
    /\ ~logout_enabled

\* C16: a logout click with an active connection whose dialog ends with any
\* response other than Yes calls no controller.logout() and returns with the
\* logout action enabled.
C16_DismissedDialogReenables ==
    (ev.op = "on_logout_clicked" /\ ev.active /\ ev.arg # "YES") =>
        /\ futures = ev.mid.futures
        /\ logout_enabled

\* C19: once user-logged-out has been emitted, the logout action is disabled
\* and, in every step of the menu that is a click through the action, a dialog
\* response, a completed future or a handled result, stays so;
\* controller.logout() is not called again and user-logged-out is not emitted
\* again.
C19_LoggedOutIsTerminal ==
    /\ [](gated /\ user_logged_out > 0 => ~logout_enabled /\ user_logged_out = 1)
    /\ [][gated' /\ user_logged_out > 0 =>
            /\ ~logout_enabled'
            /\ Len(futures') = Len(futures)
            /\ user_logged_out' = user_logged_out]_vars

C19_Witness ==
    /\ gated
    /\ ev.op = "on_quit_clicked"
    /\ ev.pre.user_logged_out = 1
    /\ user_logged_out = 1
    /\ clicks = 2

====
